---- MODULE Spec2Model ----
(***************************************************************************)
(* Model of the ez-image <Image /> component: descriptor strings           *)
(* (getWidths, createSrcSet), the mount effect (preconnect / preload       *)
(* links in document.head, the window resize listener), the resize         *)
(* handler that selects currentSize, and the rendered <img> attributes.    *)
(*                                                                         *)
(* JavaScript strings are sequences of one-character strings, so that      *)
(* startsWith, concatenation, join and number formatting are computed.     *)
(* src and origin range over URL characters; the characters that change    *)
(* the meaning of a quoted CSS attribute selector (the double quote, the   *)
(* backslash, a newline) are not URL characters and are outside the        *)
(* alphabet.  Optional props are record fields that may be absent.         *)
(***************************************************************************)
EXTENDS FiniteSets, Integers, Sequences, TLC

VARIABLES
  NODE_ENV,     \* process.env.NODE_ENV of the build
  clientWidth,  \* document.body.clientWidth
  head,         \* the <link> children of document.head, in document order
  listeners,    \* window's "resize" listeners, in registration order
  status,       \* per instance: "fresh", "attaching", "mounted", "unmounted"
  props,        \* per instance: the props of its last render
  effect,       \* per instance: what the useEffect closure captured
  currentSize   \* per instance: the useState value

vars == <<NODE_ENV, clientWidth, head, listeners, status, props, effect,
          currentSize>>

----------------------------------------------------------------------------
(* Bounds *)

NumInst == 2
MaxWidth == 10
MaxHeight == 2
MaxCatalogLen == 2
MaxPathLen == 2
MaxOriginLen == 2

----------------------------------------------------------------------------
(* Values *)

Undefined == [undefined |-> TRUE]
undefinedStr == <<"undefined">>

Inst == 1..NumInst
\* the rendering specification mounts the first instance only
RenderInst == CHOOSE i \in Inst : \A j \in Inst : i <= j

\* widths straddle the one-digit / two-digit boundary of number formatting
Widths == 9..MaxWidth
Heights == 1..MaxHeight
Size == [width : Widths, height : Heights]
square(w) == [width |-> w, height |-> w]

SeqUpTo(S, n) == UNION {[1..k -> S] : k \in 0..n}

Catalogs == SeqUpTo(Size, MaxCatalogLen)
\* the catalogs of the lifecycle specification: square breakpoints like the
\* default table, one of them listed widest first
MountCatalogs == {<<square(9)>>, <<square(MaxWidth), square(9)>>}

Paths == SeqUpTo({"/", "a"}, MaxPathLen)
Origins == SeqUpTo({"o", "/"}, MaxOriginLen)

\* body widths: below every catalog width, at each of them, and a desktop
\* width above them that falls inside the default table
Viewports == 8..MaxWidth \cup {800}

BuildModes == {"development", "production"}

__DEFAULT_SIZES__ ==
  << [width |-> 320, height |-> 320],
     [width |-> 480, height |-> 480],
     [width |-> 768, height |-> 768],
     [width |-> 1024, height |-> 1024],
     [width |-> 1440, height |-> 1440],
     [width |-> 1920, height |-> 1920],
     [width |-> 2560, height |-> 2560],
     [width |-> 3840, height |-> 3840] >>

\* ImageProps: src is required, sizes / preload / origin are optional
withProp(p, f, v) == [g \in DOMAIN p \cup {f} |-> IF g = f THEN v ELSE p[g]]
withoutProp(p, f) == [g \in DOMAIN p \ {f} |-> p[g]]

\* P, and the props of P with preload = false once more with preload left out
preloadOptional(P) ==
  P \cup {withoutProp(p, "preload") : p \in {q \in P : ~q.preload}}

PropsOver(srcs, preloads, catalogs, origins) ==
  LET required == [src : srcs, preload : preloads]
      sized == {withProp(p, "sizes", c) : p \in required, c \in catalogs}
      noOrigin == required \cup sized
  IN noOrigin \cup {withProp(p, "origin", o) : p \in noOrigin, o \in origins}

\* props of the instances of the lifecycle specification
\* (preload = false is written out for one src and left out for the others)
MountProps ==
  LET P == {p \in PropsOver({<<"a">>, <<"/", "a">>}, BOOLEAN, MountCatalogs, {}) :
              "sizes" \in DOMAIN p}
  IN {p \in preloadOptional(P) :
        "preload" \in DOMAIN p => (p.preload \/ p = [src |-> <<"a">>, preload |-> FALSE, sizes |-> <<square(9)>>])}
\* props of the update specification: those of the lifecycle, with and
\* without an origin
UpdateProps ==
  preloadOptional(
    {p \in PropsOver({<<"a">>, <<"/", "a">>}, BOOLEAN, MountCatalogs,
                     {<<"o">>}) :
       "sizes" \in DOMAIN p})
\* props of the URL resolution specification: every path and origin
ResolveProps ==
  {p \in PropsOver(Paths, BOOLEAN, MountCatalogs, Origins) :
     "sizes" \in DOMAIN p}
\* props of the catalog specification: every catalog and the default table
CatalogProps == PropsOver({<<"a">>}, BOOLEAN, Catalogs, {<<"o">>})

----------------------------------------------------------------------------
(* Strings *)

Digit(d) == <<"0", "1", "2", "3", "4", "5", "6", "7", "8", "9">>[d + 1]

\* `${n}` for a non-negative integer
RECURSIVE NumberToString(_)
NumberToString(n) ==
  IF n < 10 THEN <<Digit(n)>> ELSE NumberToString(n \div 10) \o <<Digit(n % 10)>>

\* Array.prototype.join
RECURSIVE join(_, _)
join(parts, sep) ==
  IF Len(parts) = 0 THEN <<>>
  ELSE IF Len(parts) = 1 THEN parts[1]
  ELSE parts[1] \o sep \o join(Tail(parts), sep)

\* String.prototype.startsWith
startsWith(s, prefix) ==
  /\ Len(prefix) <= Len(s)
  /\ SubSeq(s, 1, Len(prefix)) = prefix

COMMA_SPACE == <<",", " ">>
PROXY_HOST == <<"/", "/", "w", "s", "r", "v", ".", "n", "l">>
PROXY == PROXY_HOST \o <<"?", "u", "r", "l", "=">>

----------------------------------------------------------------------------
(* Descriptor strings *)

sizesClause(size) ==
  <<"(", "m", "a", "x", "-", "w", "i", "d", "t", "h", ":", " ">>
    \o NumberToString(size.width) \o <<"p", "x", ")", " ">>
    \o NumberToString(size.width) \o <<"p", "x">>

\* bug: the clauses are emitted in ascending width order
RECURSIVE insertByWidth(_, _)
insertByWidth(sorted, size) ==
  IF Len(sorted) = 0 THEN <<size>>
  ELSE IF size.width < Head(sorted).width THEN <<size>> \o sorted
  ELSE <<Head(sorted)>> \o insertByWidth(Tail(sorted), size)

RECURSIVE sortByWidth(_)
sortByWidth(sizes) ==
  IF Len(sizes) = 0 THEN <<>>
  ELSE insertByWidth(sortByWidth(SubSeq(sizes, 1, Len(sizes) - 1)),
                     sizes[Len(sizes)])

getWidths_sorted(sizes) ==
  join([k \in DOMAIN sizes |-> sizesClause(sortByWidth(sizes)[k])],
       COMMA_SPACE)

\* sizes.map(({ width }) => `(max-width: ${width}px) ${width}px`).join(", ")
getWidths(sizes) ==
  join([k \in DOMAIN sizes |-> sizesClause(sizes[k])], COMMA_SPACE)

\* !origin: undefined and the empty string are both falsy
originMissing(origin) == origin = undefinedStr \/ origin = <<>>

\* bug: without an origin the proxy is used in production only
trueSrc_productionOnly(src, origin, env) ==
  IF env = "production"
    THEN IF originMissing(origin) THEN PROXY \o src
         ELSE PROXY \o (IF startsWith(src, <<"/">>)
                          THEN origin \o src
                          ELSE origin \o <<"/">> \o src)
    ELSE src

\* bug: the build mode is not consulted, an origin is proxied everywhere
trueSrc_everyMode(src, origin, env) ==
  IF originMissing(origin) THEN PROXY \o src
  ELSE PROXY \o (IF startsWith(src, <<"/">>)
                   THEN origin \o src
                   ELSE origin \o <<"/">> \o src)

\* bug: the separator is inserted whether or not src starts with "/"
trueSrc_alwaysSlash(src, origin, env) ==
  IF originMissing(origin) THEN PROXY \o src
  ELSE IF env = "production" THEN PROXY \o origin \o <<"/">> \o src
  ELSE src

\* the value of trueSrc when createSrcSet reaches its return statement
trueSrc(src, origin, env) ==
  IF originMissing(origin) THEN PROXY \o src
  ELSE IF env = "production"
    THEN LET srcWithOrigin == IF startsWith(src, <<"/">>)
                                THEN origin \o src
                                ELSE origin \o <<"/">> \o src
         IN PROXY \o srcWithOrigin
    ELSE src

\* `${trueSrc}?w=${width}&h=${height} ${width}w`
srcSetCandidate(url, size) ==
  url \o <<"?", "w", "=">> \o NumberToString(size.width)
      \o <<"&", "h", "=">> \o NumberToString(size.height)
      \o <<" ">> \o NumberToString(size.width) \o <<"w">>

\* bug: a breakpoint whose width was already emitted is skipped
RECURSIVE dedupByWidth(_)
dedupByWidth(sizes) ==
  IF Len(sizes) = 0 THEN <<>>
  ELSE LET front == SubSeq(sizes, 1, Len(sizes) - 1)
           last == sizes[Len(sizes)]
       IN IF \E k \in DOMAIN front : front[k].width = last.width
            THEN dedupByWidth(front)
            ELSE Append(dedupByWidth(front), last)

createSrcSet_dedup(src, sizes, origin, env) ==
  join([k \in DOMAIN dedupByWidth(sizes) |->
          srcSetCandidate(trueSrc(src, origin, env), dedupByWidth(sizes)[k])],
       COMMA_SPACE)

createSrcSet(src, sizes, origin, env) ==
  join([k \in DOMAIN sizes |-> srcSetCandidate(trueSrc(src, origin, env), sizes[k])],
       COMMA_SPACE)

----------------------------------------------------------------------------
(* Props with their destructuring defaults *)

sizesOf(p) == IF "sizes" \in DOMAIN p THEN p.sizes ELSE __DEFAULT_SIZES__
\* bug: the destructuring default of preload is true
preloadOf_defaultTrue(p) == IF "preload" \in DOMAIN p THEN p.preload ELSE TRUE

preloadOf(p) == IF "preload" \in DOMAIN p THEN p.preload ELSE FALSE
originOf(p) == IF "origin" \in DOMAIN p THEN p.origin ELSE undefinedStr

sizeSetOf(p) == getWidths(sizesOf(p))
srcSetOf(p, env) == createSrcSet(p.src, sizesOf(p), originOf(p), env)

----------------------------------------------------------------------------
(* Viewport tracking *)

\* Array.prototype.filter
RECURSIVE filterWidth(_, _)
filterWidth(sizes, viewportWidth) ==
  IF Len(sizes) = 0 THEN <<>>
  ELSE (IF Head(sizes).width <= viewportWidth THEN <<Head(sizes)>> ELSE <<>>)
         \o filterWidth(Tail(sizes), viewportWidth)

\* bug: the comparison is >=, a later breakpoint of equal width replaces
\* the current one
RECURSIVE scanSizes_lastWins(_, _)
scanSizes_lastWins(rest, currSize) ==
  IF Len(rest) = 0 THEN currSize
  ELSE LET size == Head(rest)
       IN scanSizes_lastWins(Tail(rest),
            IF currSize = Undefined THEN size
            ELSE IF size.width >= currSize.width THEN size
            ELSE currSize)

\* the for..of loop of handleResize over the filtered sizes
RECURSIVE scanSizes(_, _)
scanSizes(rest, currSize) ==
  IF Len(rest) = 0 THEN currSize
  ELSE LET size == Head(rest)
       IN scanSizes(Tail(rest),
            IF currSize = Undefined THEN size
            ELSE IF size.width > currSize.width THEN size
            ELSE currSize)

\* bug: the first breakpoint that fits is taken, widths are not compared
selectBreakpoint_first(sizes, viewportWidth) ==
  IF Len(filterWidth(sizes, viewportWidth)) = 0 THEN Undefined
  ELSE Head(filterWidth(sizes, viewportWidth))

\* the value handleResize passes to setCurrentSize
selectBreakpoint(sizes, viewportWidth) ==
  scanSizes(filterWidth(sizes, viewportWidth), Undefined)

\* bug: the state is only set when a breakpoint was found
handleResize_keep(cs, i, sizes, viewportWidth) ==
  IF selectBreakpoint(sizes, viewportWidth) = Undefined THEN cs
  ELSE [cs EXCEPT ![i] = selectBreakpoint(sizes, viewportWidth)]

\* handleResize of instance i, whose closure holds sizes:
\* setCurrentSize(currSize)
handleResize(cs, i, sizes, viewportWidth) ==
  [cs EXCEPT ![i] = selectBreakpoint(sizes, viewportWidth)]

\* the <img> element returned by a render
render(p, size, env) ==
  LET attrs == [srcSet |-> srcSetOf(p, env), sizes |-> sizeSetOf(p)]
  IN IF size = Undefined THEN attrs
     ELSE [f \in {"srcSet", "sizes", "height", "width"} |->
             IF f = "height" THEN NumberToString(size.height) \o <<"p", "x">>
             ELSE IF f = "width" THEN NumberToString(size.width) \o <<"p", "x">>
             ELSE attrs[f]]

\* the <img> of instance i: React renders a mounted instance from its
\* current props and state
img(i) ==
  IF status[i] = "mounted" THEN render(props[i], currentSize[i], NODE_ENV)
  ELSE Undefined

----------------------------------------------------------------------------
(* Hint links in document.head *)

preconnectLink == [rel |-> "preconnect", href |-> PROXY_HOST]
preloadLink(srcSet, sizeSet) ==
  [rel |-> "preload", as |-> "image", imageSrcset |-> srcSet,
   imageSizes |-> sizeSet]

\* head.querySelector('link[href="//wsrv.nl"]') finds an element
hasPreconnect(h) ==
  \E k \in DOMAIN h : "href" \in DOMAIN h[k] /\ h[k].href = PROXY_HOST

\* bug: the selector leaves out the imageSrcset attribute
hasPreload_sizesOnly(h, srcSet, sizeSet) ==
  \E k \in DOMAIN h :
    /\ {"as", "imageSizes"} \subseteq DOMAIN h[k]
    /\ h[k].as = "image"
    /\ h[k].imageSizes = sizeSet

\* head.querySelector(`link[as="image"][imageSrcset=..][imageSizes=..]`)
hasPreload(h, srcSet, sizeSet) ==
  \E k \in DOMAIN h :
    /\ {"as", "imageSrcset", "imageSizes"} \subseteq DOMAIN h[k]
    /\ h[k].as = "image"
    /\ h[k].imageSrcset = srcSet
    /\ h[k].imageSizes = sizeSet

\* bug: the link is appended without looking for an existing one
ensurePreconnect_always(h) == Append(h, preconnectLink)

ensurePreconnect(h) ==
  IF hasPreconnect(h) THEN h ELSE Append(h, preconnectLink)

\* bug: the link is appended without looking for an existing one
ensurePreload_always(h, srcSet, sizeSet) ==
  Append(h, preloadLink(srcSet, sizeSet))

ensurePreload(h, srcSet, sizeSet) ==
  IF hasPreload(h, srcSet, sizeSet) THEN h
  ELSE Append(h, preloadLink(srcSet, sizeSet))

\* the if (preload) block of the effect
registerHints(h, preload, srcSet, sizeSet) ==
  IF preload THEN ensurePreload(ensurePreconnect(h), srcSet, sizeSet) ELSE h

----------------------------------------------------------------------------
(* Window listeners *)

addEventListener(ls, i) == Append(ls, i)

\* bug: the cleanup passes a function that was never registered
removeEventListener_other(ls, i) == ls

RECURSIVE removeEventListener(_, _)
removeEventListener(ls, i) ==
  IF Len(ls) = 0 THEN <<>>
  ELSE IF Head(ls) = i THEN Tail(ls)
  ELSE <<Head(ls)>> \o removeEventListener(Tail(ls), i)

\* bug: the handler reads the sizes of the latest render instead of those
\* its closure captured
RECURSIVE dispatchResize_latestProps(_, _, _)
dispatchResize_latestProps(ls, cs, viewportWidth) ==
  IF Len(ls) = 0 THEN cs
  ELSE dispatchResize_latestProps(Tail(ls),
         handleResize(cs, Head(ls), sizesOf(props[Head(ls)]), viewportWidth),
         viewportWidth)

\* a resize event runs every registered listener, in registration order
RECURSIVE dispatchResize(_, _, _)
dispatchResize(ls, cs, viewportWidth) ==
  IF Len(ls) = 0 THEN cs
  ELSE dispatchResize(Tail(ls),
         handleResize(cs, Head(ls), effect[Head(ls)].sizes, viewportWidth),
         viewportWidth)

----------------------------------------------------------------------------
(* Actions *)

Init ==
  /\ NODE_ENV \in BuildModes
  /\ clientWidth \in Viewports
  /\ head = <<>>
  /\ listeners = <<>>
  /\ status = [i \in Inst |-> "fresh"]
  /\ props = [i \in Inst |-> Undefined]
  /\ effect = [i \in Inst |-> Undefined]
  /\ currentSize = [i \in Inst |-> Undefined]

\* first render of instance i with props p, then its effect: hints, listener
\* registration and the initial handleResize()
Mount(i, p) ==
  /\ status[i] = "fresh"
  /\ LET sizeSet == sizeSetOf(p)
         srcSet == srcSetOf(p, NODE_ENV)
         captured == [sizes |-> sizesOf(p), srcSet |-> srcSet,
                      sizeSet |-> sizeSet, preload |-> preloadOf(p)]
     IN /\ head' = registerHints(head, captured.preload, srcSet, sizeSet)
        /\ effect' = [effect EXCEPT ![i] = captured]
        /\ listeners' = addEventListener(listeners, i)
        /\ currentSize' =
             handleResize(currentSize, i, captured.sizes, clientWidth)
  /\ status' = [status EXCEPT ![i] = "mounted"]
  /\ props' = [props EXCEPT ![i] = p]
  /\ UNCHANGED <<NODE_ENV, clientWidth>>

\* the body takes width w and the window fires "resize"
Resize(w) ==
  /\ clientWidth' = w
  /\ currentSize' = dispatchResize(listeners, currentSize, w)
  /\ UNCHANGED <<NODE_ENV, head, listeners, status, props, effect>>

\* bug: the cleanup also removes the preload link of the instance
Unmount_removesHint(i) ==
  /\ status[i] = "mounted"
  /\ listeners' = removeEventListener(listeners, i)
  /\ head' = SelectSeq(head,
                LAMBDA l : l # preloadLink(effect[i].srcSet, effect[i].sizeSet))
  /\ status' = [status EXCEPT ![i] = "unmounted"]
  /\ props' = [props EXCEPT ![i] = Undefined]
  /\ UNCHANGED <<NODE_ENV, clientWidth, effect, currentSize>>

\* instance i is torn down: the effect's cleanup runs and the instance's
\* props are gone; effect[i] keeps what the instance was mounted with
Unmount(i) ==
  /\ status[i] = "mounted"
  /\ listeners' = removeEventListener(listeners, i)
  /\ status' = [status EXCEPT ![i] = "unmounted"]
  /\ props' = [props EXCEPT ![i] = Undefined]
  /\ UNCHANGED <<NODE_ENV, clientWidth, head, effect, currentSize>>

\* the parent renders mounted instance i again with other props p: the
\* descriptor strings are recomputed for the <img>; the effect has an empty
\* dependency list and does not run again
Rerender(i, p) ==
  /\ status[i] = "mounted"
  /\ p # props[i]
  /\ props' = [props EXCEPT ![i] = p]
  /\ UNCHANGED <<NODE_ENV, clientWidth, head, listeners, status, effect,
                 currentSize>>

Next ==
  \/ \E i \in Inst, p \in MountProps : Mount(i, p)
  \/ \E w \in Viewports : Resize(w)
  \/ \E i \in Inst : Unmount(i)

Spec == Init /\ [][Next]_vars

\* one instance, props over every path and origin
NextResolve ==
  \/ \E p \in ResolveProps : Mount(RenderInst, p)
  \/ \E w \in Viewports : Resize(w)
  \/ Unmount(RenderInst)

SpecResolve == Init /\ [][NextResolve]_vars

\* The effect of a mount, statement by statement.  It runs to completion
\* before any other event is handled; "attaching" is the position after the
\* if (preload) block and before window.addEventListener.

NoneAttaching == \A i \in Inst : status[i] # "attaching"

\* bug: the effect starts with addEventListener and handleResize(), the
\* if (preload) block comes after them
Attach_measuresFirst(i, p) ==
  /\ NoneAttaching
  /\ status[i] = "fresh"
  /\ effect' = [effect EXCEPT ![i] =
                  [sizes |-> sizesOf(p), srcSet |-> srcSetOf(p, NODE_ENV),
                   sizeSet |-> sizeSetOf(p), preload |-> preloadOf(p)]]
  /\ listeners' = addEventListener(listeners, i)
  /\ currentSize' = handleResize(currentSize, i, sizesOf(p), clientWidth)
  /\ status' = [status EXCEPT ![i] = "attaching"]
  /\ props' = [props EXCEPT ![i] = p]
  /\ UNCHANGED <<NODE_ENV, clientWidth, head>>

\* first render of instance i with props p and the if (preload) block of
\* its effect
Attach(i, p) ==
  /\ NoneAttaching
  /\ status[i] = "fresh"
  /\ LET sizeSet == sizeSetOf(p)
         srcSet == srcSetOf(p, NODE_ENV)
         captured == [sizes |-> sizesOf(p), srcSet |-> srcSet,
                      sizeSet |-> sizeSet, preload |-> preloadOf(p)]
     IN /\ head' = registerHints(head, captured.preload, srcSet, sizeSet)
        /\ effect' = [effect EXCEPT ![i] = captured]
  /\ status' = [status EXCEPT ![i] = "attaching"]
  /\ props' = [props EXCEPT ![i] = p]
  /\ UNCHANGED <<NODE_ENV, clientWidth, listeners, currentSize>>

\* the rest of the effect: window.addEventListener and handleResize()
Measure(i) ==
  /\ status[i] = "attaching"
  /\ listeners' = addEventListener(listeners, i)
  /\ currentSize' =
       handleResize(currentSize, i, effect[i].sizes, clientWidth)
  /\ status' = [status EXCEPT ![i] = "mounted"]
  /\ UNCHANGED <<NODE_ENV, clientWidth, head, props, effect>>

NextEffect ==
  \/ \E i \in Inst, p \in MountProps : Attach(i, p)
  \/ \E i \in Inst : Measure(i)
  \/ \E w \in Viewports : NoneAttaching /\ Resize(w)
  \/ \E i \in Inst : NoneAttaching /\ Unmount(i)

SpecEffect == Init /\ [][NextEffect]_vars

\* one instance whose props change while it is mounted
NextUpdate ==
  \/ \E p \in UpdateProps : Mount(RenderInst, p)
  \/ \E p \in UpdateProps : Rerender(RenderInst, p)
  \/ \E w \in Viewports : Resize(w)
  \/ Unmount(RenderInst)

SpecUpdate == Init /\ [][NextUpdate]_vars

\* one instance, props over every catalog
NextCatalog ==
  \/ \E p \in CatalogProps : Mount(RenderInst, p)
  \/ \E w \in Viewports : Resize(w)
  \/ Unmount(RenderInst)

SpecCatalog == Init /\ [][NextCatalog]_vars

----------------------------------------------------------------------------
(* Reading the state back *)

Range(seq) == {seq[k] : k \in DOMAIN seq}

\* String.prototype.split
RECURSIVE split(_, _)
split(s, sep) ==
  LET hits == {k \in 1..(Len(s) - Len(sep) + 1) :
                 SubSeq(s, k, k + Len(sep) - 1) = sep}
  IN IF hits = {} THEN <<s>>
     ELSE LET first == CHOOSE k \in hits : \A j \in hits : k <= j
          IN <<SubSeq(s, 1, first - 1)>>
               \o split(SubSeq(s, first + Len(sep), Len(s)), sep)

\* "?w=W&h=H Ww", what a srcset candidate carries after its resolved URL
candidateTail(size) ==
  <<"?", "w", "=">> \o NumberToString(size.width)
    \o <<"&", "h", "=">> \o NumberToString(size.height)
    \o <<" ">> \o NumberToString(size.width) \o <<"w">>

Mounted(i) == status[i] = "mounted"
fits(i) == {s \in Range(effect[i].sizes) : s.width <= clientWidth}

----------------------------------------------------------------------------
(* Viewport tracking *)

\* C1: whenever a mounted instance's catalog has a breakpoint that fits the
\* body width, currentSize is a catalog breakpoint that fits and no fitting
\* breakpoint is wider
LargestFittingSelected ==
  \A i \in Inst :
    (Mounted(i) /\ fits(i) # {}) =>
      /\ currentSize[i] \in fits(i)
      /\ \A s \in fits(i) : s.width <= currentSize[i].width

\* a later, wider breakpoint was preferred to an earlier fitting one
LargestFittingSelectedWitness ==
  \E i \in Inst :
    /\ Mounted(i)
    /\ currentSize[i] # Undefined
    /\ \E k \in DOMAIN effect[i].sizes :
         /\ effect[i].sizes[k].width < currentSize[i].width
         /\ effect[i].sizes[Len(effect[i].sizes)] = currentSize[i]
         /\ k < Len(effect[i].sizes)

\* C7: currentSize is undefined before the first measurement and whenever
\* the body is narrower than every catalog width; the <img> then has neither
\* width nor height
UndefinedWhenNothingFits ==
  \A i \in Inst :
    /\ status[i] = "fresh" => currentSize[i] = Undefined
    /\ (Mounted(i) /\ fits(i) = {}) =>
         /\ currentSize[i] = Undefined
         /\ DOMAIN img(i) \cap {"width", "height"} = {}

\* a mounted instance with a non-empty catalog, all of it wider than the body
UndefinedWhenNothingFitsWitness ==
  \E i \in Inst :
    /\ Mounted(i)
    /\ Len(effect[i].sizes) > 0
    /\ fits(i) = {}
    /\ currentSize[i] = Undefined

----------------------------------------------------------------------------
(* Descriptor strings *)

\* C9: the srcset of a non-empty catalog splits on ", " into one candidate
\* per breakpoint, in catalog order, the k-th being the resolved URL followed
\* by "?w=W&h=H Ww" of the k-th breakpoint
SrcSetOneCandidatePerBreakpoint ==
  \A i \in Inst :
    (Mounted(i) /\ Len(sizesOf(props[i])) > 0) =>
      LET C == sizesOf(props[i])
          U == trueSrc(props[i].src, originOf(props[i]), NODE_ENV)
          candidates == split(img(i).srcSet, COMMA_SPACE)
      IN /\ Len(candidates) = Len(C)
         /\ \A k \in DOMAIN C : candidates[k] = U \o candidateTail(C[k])

\* a catalog that repeats a width with two heights
SrcSetOneCandidatePerBreakpointWitness ==
  \E i \in Inst :
    /\ Mounted(i)
    /\ Len(sizesOf(props[i])) = 2
    /\ sizesOf(props[i])[1].width = sizesOf(props[i])[2].width
    /\ sizesOf(props[i])[1].height # sizesOf(props[i])[2].height

\* C10: the sizes string of a non-empty catalog splits on ", " into one
\* clause per breakpoint, in catalog order, the k-th being
\* "(max-width: Wpx) Wpx" for the width of the k-th breakpoint
SizesOneClausePerBreakpoint ==
  \A i \in Inst :
    (Mounted(i) /\ Len(sizesOf(props[i])) > 0) =>
      LET C == sizesOf(props[i])
          clauses == split(img(i).sizes, COMMA_SPACE)
          W(k) == NumberToString(C[k].width)
      IN /\ Len(clauses) = Len(C)
         /\ \A k \in DOMAIN C :
              clauses[k] =
                <<"(", "m", "a", "x", "-", "w", "i", "d", "t", "h", ":", " ">>
                  \o W(k) \o <<"p", "x", ")", " ">> \o W(k) \o <<"p", "x">>

\* a catalog listed widest first
SizesOneClausePerBreakpointWitness ==
  \E i \in Inst :
    /\ Mounted(i)
    /\ Len(sizesOf(props[i])) = 2
    /\ sizesOf(props[i])[1].width > sizesOf(props[i])[2].width

----------------------------------------------------------------------------
(* URL resolution *)

srcSetCandidates(i) == split(img(i).srcSet, COMMA_SPACE)

\* every candidate of instance i is url followed by its breakpoint's tail
candidatesUse(i, url) ==
  /\ Len(srcSetCandidates(i)) = Len(sizesOf(props[i]))
  /\ \A k \in DOMAIN sizesOf(props[i]) :
       srcSetCandidates(i)[k] = url \o candidateTail(sizesOf(props[i])[k])

\* origin followed by path, with one "/" between them unless the path
\* brings its own
qualified(origin, path) ==
  IF Len(path) > 0 /\ path[1] = "/" THEN origin \o path
  ELSE origin \o <<"/">> \o path

srcSetWithLeadingSlash(i) ==
  createSrcSet(<<"/">> \o props[i].src, sizesOf(props[i]),
               originOf(props[i]), NODE_ENV)

----------------------------------------------------------------------------
(* Hint registry *)

\* instances whose effect ran with preload requested
Preloaded == {i \in Inst : status[i] # "fresh" /\ effect[i].preload}

\* positions of document.head holding a preload hint for (sizes, srcset)
preloadHintsFor(sizeSet, srcSet) ==
  {k \in DOMAIN head :
     /\ head[k].rel = "preload"
     /\ head[k].imageSizes = sizeSet
     /\ head[k].imageSrcset = srcSet}

preloadHints == {k \in DOMAIN head : head[k].rel = "preload"}
preconnectHints ==
  {k \in DOMAIN head : head[k].rel = "preconnect" /\ head[k].href = PROXY_HOST}

\* the distinct (imageSizes, imageSrcset) pairs mounted with preload so far
mountedPairs == {<<effect[i].sizeSet, effect[i].srcSet>> : i \in Preloaded}

\* C2: the registry holds exactly one preload hint for the descriptor pair
\* of every instance mounted with preload, and as many preload hints as
\* there are distinct pairs
OnePreloadPerPair ==
  /\ \A i \in Preloaded :
       Cardinality(preloadHintsFor(effect[i].sizeSet, effect[i].srcSet)) = 1
  /\ Cardinality(preloadHints) = Cardinality(mountedPairs)

\* two instances were mounted with preload and the same descriptor pair
OnePreloadPerPairWitness ==
  \E i, j \in Preloaded :
    /\ i # j
    /\ effect[i].sizeSet = effect[j].sizeSet
    /\ effect[i].srcSet = effect[j].srcSet

\* C8: the registry holds no preconnect hint for "//wsrv.nl" before any
\* mount with preload, and exactly one after
OnePreconnect ==
  Cardinality(preconnectHints) = IF Preloaded = {} THEN 0 ELSE 1

\* two instances were mounted with preload
OnePreconnectWitness ==
  \E i, j \in Preloaded : i # j

----------------------------------------------------------------------------
(* Listener discipline *)

registrations(i) == {k \in DOMAIN listeners : listeners[k] = i}

OneListenerWhileMounted ==
  \A i \in Inst :
    Cardinality(registrations(i)) = IF Mounted(i) THEN 1 ELSE 0

FrozenAfterUnmount ==
  \A i \in Inst :
    status[i] = "unmounted" => currentSize'[i] = currentSize[i]

\* C6: an instance has exactly one resize listener while it is mounted and
\* none before attach or from the unmount step on, and no step changes the
\* currentSize of an unmounted instance
ListenerDiscipline ==
  []OneListenerWhileMounted /\ [][FrozenAfterUnmount]_vars

\* the body was resized after an unmount, the unmounted instance still holds
\* its old selection while another instance is mounted
ListenerDisciplineWitness ==
  \E i, j \in Inst :
    /\ status[i] = "unmounted"
    /\ Mounted(j)
    /\ currentSize[i] # selectBreakpoint(effect[i].sizes, clientWidth)

----------------------------------------------------------------------------
(* Wire contract with the proxy *)

\* the URL of a srcset candidate: what precedes its width descriptor
candidateUrl(candidate) == split(candidate, <<" ">>)[1]

\* an instance whose resolved URL is a request to the proxy
ProxyWrapped(i) ==
  startsWith(trueSrc(props[i].src, originOf(props[i]), NODE_ENV), PROXY)

\* C11: the URL of every proxy-wrapped candidate is "//wsrv.nl?url={target}"
\* followed by "&w={width}&h={height}", so that url, w and h are the query
\* parameters of the proxy request
SizeParametersJoinedByAmpersand ==
  \A i \in Inst :
    (Mounted(i) /\ ProxyWrapped(i)) =>
      \A k \in DOMAIN sizesOf(props[i]) :
        candidateUrl(srcSetCandidates(i)[k]) =
          trueSrc(props[i].src, originOf(props[i]), NODE_ENV)
            \o <<"&", "w", "=">>
            \o NumberToString(sizesOf(props[i])[k].width)
            \o <<"&", "h", "=">>
            \o NumberToString(sizesOf(props[i])[k].height)

----------------------------------------------------------------------------
(* Contract violations *)

\* the effect of instance i ran, so its descriptor was built
Attached(i) == status[i] # "fresh"

\* C12: no descriptor is built from an empty catalog: no instance gets
\* attached with one, and no preload hint carries the strings of one
EmptyCatalogRejected ==
  /\ \A i \in Inst : Attached(i) => Len(effect[i].sizes) > 0
  /\ \A k \in DOMAIN head :
       head[k].rel = "preload" => head[k].imageSizes # <<>>

\* C13: no image reference with an empty path is resolved: no instance is
\* rendered from an empty src, in either build mode, with or without origin
EmptyPathRejected ==
  \A i \in Inst : Mounted(i) => Len(props[i].src) > 0

----------------------------------------------------------------------------
(* Interleaved mounts *)

\* the links the registry must hold for the pairs mounted so far
expectedHints ==
  IF Preloaded = {} THEN {}
  ELSE {preconnectLink}
         \cup {preloadLink(effect[i].srcSet, effect[i].sizeSet) : i \in Preloaded}

\* C14: whatever the order of the attach events, document.head holds each
\* link once and its links are the preconnect link and one preload link per
\* distinct descriptor pair mounted with preload
RegistryIsSetOfMountedPairs ==
  /\ Range(head) = expectedHints
  /\ Len(head) = Cardinality(expectedHints)

\* the hint of the higher-numbered instance precedes that of the lower one:
\* two descriptors were registered in the other order
RegistryIsSetOfMountedPairsWitness ==
  \E i, j \in Preloaded :
    /\ i < j
    /\ \E a, b \in DOMAIN head :
         /\ a < b
         /\ head[a] = preloadLink(effect[j].srcSet, effect[j].sizeSet)
         /\ head[b] = preloadLink(effect[i].srcSet, effect[i].sizeSet)

----------------------------------------------------------------------------
(* Tie-break *)

\* the positions of the catalog of instance i that hold the widest fitting
\* width
widestFitting(i) ==
  {k \in DOMAIN effect[i].sizes :
     /\ effect[i].sizes[k] \in fits(i)
     /\ \A s \in fits(i) : s.width <= effect[i].sizes[k].width}

\* C15: when several breakpoints share the widest fitting width, currentSize
\* is the one that comes first in the catalog, height included
FirstOfEqualWidthsSelected ==
  \A i \in Inst :
    (Mounted(i) /\ fits(i) # {}) =>
      \E k \in widestFitting(i) :
        /\ \A j \in widestFitting(i) : k <= j
        /\ currentSize[i] = effect[i].sizes[k]

\* two breakpoints of the selected width with different heights
FirstOfEqualWidthsSelectedWitness ==
  \E i \in Inst :
    /\ Mounted(i)
    /\ Cardinality(widestFitting(i)) = 2
    /\ Cardinality({effect[i].sizes[k] : k \in widestFitting(i)}) = 2

----------------------------------------------------------------------------
(* Props that change after attach *)

\* C17: for an instance mounted with preload, document.head holds a preload
\* hint whose imageSizes and imageSrcset are the sizes and srcSet of the
\* instance's <img>, also after its props changed
HintMatchesRenderedDescriptor ==
  \A i \in Inst :
    (Mounted(i) /\ effect[i].preload) =>
      preloadHintsFor(img(i).sizes, img(i).srcSet) # {}

\* C20: the currentSize of an attached instance is undefined or a breakpoint
\* of the catalog the instance was attached with, whatever sizes it is
\* rendered with later; while mounted it is the selection from that catalog
SelectedFromCatalogAtAttach ==
  \A i \in Inst :
    /\ Attached(i) =>
         \/ currentSize[i] = Undefined
         \/ currentSize[i] \in Range(effect[i].sizes)
    /\ Mounted(i) =>
         currentSize[i] = selectBreakpoint(effect[i].sizes, clientWidth)

\* the instance is now rendered with another catalog, from which the body
\* width would select a different breakpoint
SelectedFromCatalogAtAttachWitness ==
  \E i \in Inst :
    /\ Mounted(i)
    /\ sizesOf(props[i]) # effect[i].sizes
    /\ currentSize[i] # Undefined
    /\ currentSize[i] # selectBreakpoint(sizesOf(props[i]), clientWidth)
    /\ currentSize[i] \notin Range(sizesOf(props[i]))

----------------------------------------------------------------------------
(* Registry frame *)

HintsKept ==
  \A k \in DOMAIN head : k \in DOMAIN head' /\ head'[k] = head[k]

\* C18: no step removes or alters a link of document.head: every link stays
\* at its place with its attributes, also when its instance is unmounted
HintsNeverRemoved == [][HintsKept]_vars

\* an instance that registered a preload hint is unmounted, no other
\* instance is attached, and the hint is still there
HintsNeverRemovedWitness ==
  \E i \in Preloaded :
    /\ status[i] = "unmounted"
    /\ \A j \in Inst \ {i} : ~Attached(j)
    /\ preloadHintsFor(effect[i].sizeSet, effect[i].srcSet) # {}
    /\ preconnectHints # {}

\* the props ask for preload: the prop is present and true
preloadRequested(p) == "preload" \in DOMAIN p /\ p.preload

\* instance i attaches in this step
Attaches(i) == status[i] = "fresh" /\ status'[i] = "mounted"

\* C19: a step in which no instance attaches with preload requested leaves
\* document.head unchanged: attaching with preload false or left out,
\* resizing and unmounting create no hint
NoHintWithoutPreload ==
  [][(\A i \in Inst : Attaches(i) => ~preloadRequested(props'[i]))
       => head' = head]_vars

\* an instance rendered without the preload prop is mounted, has been
\* unmounted or resized around, and document.head is still empty
NoHintWithoutPreloadWitness ==
  \E i, j \in Inst :
    /\ Mounted(i)
    /\ "preload" \notin DOMAIN props[i]
    /\ status[j] = "unmounted"
    /\ ~effect[j].preload
    /\ head = <<>>

----------------------------------------------------------------------------
(* Order within one instance *)

\* in the middle of its effect an instance has registered its hints, when
\* preload is requested, and has neither a listener nor a measurement
HintsBeforeMeasurement ==
  \A i \in Inst :
    status[i] = "attaching" =>
      /\ currentSize[i] = Undefined
      /\ registrations(i) = {}
      /\ preloadRequested(props[i]) =>
           /\ preconnectHints # {}
           /\ preloadHintsFor(effect[i].sizeSet, effect[i].srcSet) # {}

\* document.head changes only in the step that starts an instance's effect
HintsOnlyAtAttach ==
  head' # head => \E i \in Inst : status[i] = "fresh" /\ status'[i] = "attaching"

\* the first change of an instance's currentSize is the handleResize() call
\* of its effect, which measures the body as it is; a resize recomputes
\* only instances that are mounted
MeasuredBeforeResized ==
  \A i \in Inst :
    /\ (status[i] = "attaching" /\ status'[i] = "mounted") =>
         currentSize'[i] = selectBreakpoint(effect[i].sizes, clientWidth)
    /\ status[i] \in {"fresh", "unmounted"} => currentSize'[i] = currentSize[i]

\* C16: within an instance the hints are registered first, once, in the
\* attach step; then comes the initial measurement, and only after that
\* resize events recompute the instance; no resize event registers a hint
AttachOrder ==
  []HintsBeforeMeasurement /\ [][HintsOnlyAtAttach /\ MeasuredBeforeResized]_vars

\* an instance is in the middle of its effect with its preload hint already
\* in document.head, while another instance is mounted and measured
AttachOrderWitness ==
  \E i, j \in Inst :
    /\ status[i] = "attaching"
    /\ preloadRequested(props[i])
    /\ preloadHintsFor(effect[i].sizeSet, effect[i].srcSet) # {}
    /\ effect[i].sizes # <<>>
    /\ Mounted(j)
    /\ currentSize[j] # Undefined

====
